---- MODULE Spec2Model ----
(***************************************************************************)
(* Model of effdet/bench.py: the top-k selection _post_process and the     *)
(* forward passes of the detection benches.                                *)
(*                                                                         *)
(* A tensor is a record [shape, data]: data is the contiguous row-major    *)
(* sequence of the elements.  Index arithmetic is 0-based as in the        *)
(* source; data[i + 1] is the element at flat offset i.                    *)
(*                                                                         *)
(* SpecPP    one call of _post_process on network outputs of every small   *)
(*           shape, in either layout, fitting each other or not            *)
(* SpecIdx   the index recovery (lines 36-37) on single flat indices, the  *)
(*           ones around 2^24 included                                     *)
(* SpecBench a constructed bench and the forward calls made on it          *)
(*                                                                         *)
(* Two things the source leaves to the torch build are left open here:     *)
(* which of several equal scores torch.topk returns, and whether `/` of an *)
(* int64 tensor is integer division or true division in float32.           *)
(***************************************************************************)
EXTENDS Integers, Sequences, FiniteSets, TLC

(***************************************************************************)
(* Bounds of the model.                                                    *)
(***************************************************************************)
MaxBatch == 2      \* images in a batch
MaxElems == 8      \* classification scores in one batch (all images)
MaxCalls == 2      \* forward calls on one bench
MaxSmallFlat == 24 \* small flat indices tried by the index recovery

\* anchors.MAX_DETECTION_POINTS (5000 in the library), scaled to the model
MAX_DETECTION_POINTS == 2

VARIABLES
    config,        \* [num_classes, num_levels]
    div_mode,      \* what `/` does to an int64 tensor in this build
    cls_outputs,   \* per level: tensor of rank 4 (network output)
    box_outputs,   \* per level: tensor of rank 4 (network output)
    pp,            \* outcome of _post_process
    pc,            \* position of the running call
    bench,         \* which bench was constructed ("none": a direct call)
    anchors,       \* self.anchors, built by __init__
    anchor_builds, \* how many times Anchors(...) was constructed
    x_batch,       \* x.shape[0] of the running forward call
    gt,            \* per image: (gt_boxes[i], gt_labels[i])
    include_pred,  \* argument of the training forwards
    i,             \* loop variable of the running loop
    cls_targets, box_targets, num_positives, \* the lists the label loop fills
    losses,        \* what loss_fn was called with
    detections,    \* batch_detections
    trace,         \* the calls made by the running forward, in order
    calls,         \* forward calls started so far
    idx_f,         \* a flat index into the score vector (index recovery)
    idx_out        \* the (anchor, class) pair recovered from idx_f

vars == <<config, div_mode, cls_outputs, box_outputs, pp, pc, bench, anchors,
          anchor_builds, x_batch, gt, include_pred, i, cls_targets,
          box_targets, num_positives, losses, detections, trace, calls,
          idx_f, idx_out>>

(***************************************************************************)
(* Arithmetic helpers.                                                     *)
(***************************************************************************)
Pow2(n) == 2 ^ n

RECURSIVE Prod(_)
Prod(s) == IF s = <<>> THEN 1 ELSE Head(s) * Prod(Tail(s))

RECURSIVE SumSeq(_)
SumSeq(s) == IF s = <<>> THEN 0 ELSE Head(s) + SumSeq(Tail(s))

RECURSIVE Flat(_)
Flat(ss) == IF ss = <<>> THEN <<>> ELSE Head(ss) \o Flat(Tail(ss))

Numel(t) == Prod(t.shape)

Err == [status |-> "error"]

IsErr(r) == r.status = "error"

(***************************************************************************)
(* float32, as far as `/` needs it.  A tensor element is [m, e], the value *)
(* m * 2^e: a float32 has m <= 2^24 (e may be negative), an int64 has      *)
(* e = 0.                                                                  *)
(***************************************************************************)
RoundHalfEven(p, q) ==
    LET fl == p \div q
        rem == p % q
    IN  IF 2 * rem < q THEN fl
        ELSE IF 2 * rem > q THEN fl + 1
        ELSE IF fl % 2 = 0 THEN fl ELSE fl + 1

\* the least e >= 0 with p < q * 2^(24 + e)
ExpUp(p, q) ==
    CHOOSE e \in 0..8 :
        /\ p \div Pow2(e) < q * Pow2(24)
        /\ e = 0 \/ p \div Pow2(e - 1) >= q * Pow2(24)

\* the least k >= 0 with p * 2^k >= q * 2^23
ExpDown(p, q) ==
    CHOOSE k \in 0..30 :
        /\ p * Pow2(k) >= q * Pow2(23)
        /\ k = 0 \/ p * Pow2(k - 1) < q * Pow2(23)

\* the float32 nearest to p / q (p >= 0, q > 0), ties to even
Float32Quot(p, q) ==
    IF p = 0 THEN [m |-> 0, e |-> 0]
    ELSE IF p >= q * Pow2(23)
         THEN LET e == ExpUp(p, q)
              IN  [m |-> RoundHalfEven(p, q * Pow2(e)), e |-> e]
         ELSE LET k == ExpDown(p, q)
              IN  [m |-> RoundHalfEven(p * Pow2(k), q), e |-> 0 - k]

\* int64 -> float32
ToFloat32(n) == Float32Quot(n, 1)

\* float32 -> int64 (.to(torch.int64) truncates; values here are >= 0)
ToInt64(x) == IF x.e >= 0 THEN x.m * Pow2(x.e) ELSE x.m \div Pow2(0 - x.e)

\* an int64 element kept as it is
OfInt(n) == [m |-> n, e |-> 0]

(***************************************************************************)
(* Tensor operations used by _post_process.                                *)
(***************************************************************************)
\* faulty variant of Permute0231: the permute left out, the tensor reshaped
\* as it comes
PermuteNone(t) == t

\* t.permute(0, 2, 3, 1) of a rank-4 tensor, laid out contiguously (the
\* reshape that follows copies it in logical order)
Permute0231(t) ==
    LET d1 == t.shape[2]
        d2 == t.shape[3]
        d3 == t.shape[4]
    IN  [shape |-> <<t.shape[1], d2, d3, d1>>,
         data  |-> [n \in 1..Numel(t) |->
                      LET j  == n - 1
                          ch == j % d1
                          c  == (j \div d1) % d3
                          r  == (j \div (d1 * d3)) % d2
                          b  == j \div (d1 * d3 * d2)
                      IN  t.data[((b * d1 + ch) * d2 + r) * d3 + c + 1]]]

\* t.reshape([batch, -1, last]): fails unless the element count divides
Reshape3(t, batch, last) ==
    IF Numel(t) % (batch * last) # 0 THEN Err
    ELSE [status |-> "ok",
          shape  |-> <<batch, Numel(t) \div (batch * last), last>>,
          data   |-> t.data]

\* the part of rank-3 tensor t that belongs to batch row b (0-based)
RowOf(t, b) ==
    LET n == t.shape[2] * t.shape[3]
    IN  SubSeq(t.data, b * n + 1, (b + 1) * n)

\* torch.cat(ts, 1) of rank-3 tensors that agree in dimensions 0 and 2
Cat1(ts) ==
    LET batch == ts[1].shape[1]
        last  == ts[1].shape[3]
    IN  IF \E l \in 1..Len(ts) : ts[l].shape[1] # batch \/ ts[l].shape[3] # last
        THEN Err
        ELSE [status |-> "ok",
              shape  |-> <<batch, SumSeq([l \in 1..Len(ts) |-> ts[l].shape[2]]), last>>,
              data   |-> Flat([b \in 1..batch |->
                                 Flat([l \in 1..Len(ts) |-> RowOf(ts[l], b - 1)])])]

\* element [b][n][k] of a rank-3 tensor (0-based)
At3(t, b, n, k) == t.data[(b * t.shape[2] + n) * t.shape[3] + k + 1]

\* element [b][d1][d2][d3] of a rank-4 tensor (0-based)
At4(t, b, d1, d2, d3) ==
    t.data[((b * t.shape[2] + d1) * t.shape[3] + d2) * t.shape[4] + d3 + 1]

\* the sequences of k 0-based positions of a row of length n
RECURSIVE Arrangements(_, _)
Arrangements(n, k) ==
    IF k = 0 THEN {<<>>}
    ELSE {Append(s, p) : s \in Arrangements(n, k - 1), p \in 0..(n - 1)}

DistinctSeq(s) == \A a, b \in 1..Len(s) : a # b => s[a] # s[b]

\* faulty variant of TopKRow: largest=False, the k smallest values in
\* non-decreasing order
TopKRowSmallest(row, k) ==
    {s \in Arrangements(Len(row), k) :
        /\ DistinctSeq(s)
        /\ \A a \in 1..(k - 1) : row[s[a] + 1] <= row[s[a + 1] + 1]
        /\ \A p \in 0..(Len(row) - 1) :
              (\A a \in 1..k : s[a] # p) => row[p + 1] >= row[s[k] + 1]}

\* torch.topk(row, k) (largest, sorted): the index sequences it may return.
\* The k largest values in non-increasing order; which of several equal
\* values is taken, and in which order, is left to the implementation.
TopKRow(row, k) ==
    {s \in Arrangements(Len(row), k) :
        /\ DistinctSeq(s)
        /\ \A a \in 1..(k - 1) : row[s[a] + 1] >= row[s[a + 1] + 1]
        /\ \A p \in 0..(Len(row) - 1) :
              (\A a \in 1..k : s[a] # p) => row[p + 1] <= row[s[k] + 1]}

\* one result per batch row
RECURSIVE TopKAll(_, _)
TopKAll(rows, k) ==
    IF rows = <<>> THEN {<<>>}
    ELSE {<<h>> \o t : h \in TopKRow(Head(rows), k), t \in TopKAll(Tail(rows), k)}

\* cls_topk_indices_all / config.num_classes: integer division where `/`
\* of an int64 tensor is integer division, true division in float32 where
\* it is not
DivIndex(f, num_classes, mode) ==
    IF mode = "floor" THEN OfInt(f \div num_classes)
    ELSE Float32Quot(ToInt64(ToFloat32(f)), num_classes)

\* cls_topk_indices_all % config.num_classes (int64 remainder)
ModIndex(f, num_classes) == f % num_classes

(***************************************************************************)
(* _post_process                                                           *)
(***************************************************************************)
\* cls_outputs[level].permute(0, 2, 3, 1).reshape([batch_size, -1, last])
FlattenLevel(t, batch_size, last) == Reshape3(Permute0231(t), batch_size, last)

\* torch.cat([... for level in range(config.num_levels)], 1)
FlattenAll(outputs, num_levels, batch_size, last) ==
    IF num_levels > Len(outputs) THEN Err
    ELSE LET parts == [l \in 1..num_levels |-> FlattenLevel(outputs[l], batch_size, last)]
         IN  IF \E l \in 1..num_levels : IsErr(parts[l]) THEN Err ELSE Cat1(parts)

\* the rows of cls_outputs_all.reshape(batch_size, -1)
ScoreRows(cls_all) == [b \in 1..cls_all.shape[1] |-> RowOf(cls_all, b - 1)]

\* faulty variant of Gather1: the entry after the one asked for
GatherShifted(t, index) ==
    IF \E b \in 1..Len(index) : \E j \in 1..Len(index[b]) : index[b][j] >= t.shape[2]
    THEN Err
    ELSE [status |-> "ok",
          rows   |-> [b \in 1..Len(index) |-> [j \in 1..Len(index[b]) |->
                        [k \in 1..t.shape[3] |->
                            At3(t, b - 1, (index[b][j] + 1) % t.shape[2], k - 1)]]]]

\* torch.gather(t, 1, index.unsqueeze(2).expand(-1, -1, t.shape[2])):
\* out[b][j] = t[b][index[b][j]], an index out of range is an error
Gather1(t, index) ==
    IF \E b \in 1..Len(index) : \E j \in 1..Len(index[b]) : index[b][j] >= t.shape[2]
    THEN Err
    ELSE [status |-> "ok",
          rows   |-> [b \in 1..Len(index) |-> [j \in 1..Len(index[b]) |->
                        [k \in 1..t.shape[3] |-> At3(t, b - 1, index[b][j], k - 1)]]]]

\* everything after the two concatenations, for one outcome topk of torch.topk
SelectTopK(cfg, cls_all, box_all, topk, mode) ==
    LET indices_all == [b \in 1..Len(topk) |-> [j \in 1..Len(topk[b]) |->
                           DivIndex(topk[b][j], cfg.num_classes, mode)]]
        classes_all == [b \in 1..Len(topk) |-> [j \in 1..Len(topk[b]) |->
                           ModIndex(topk[b][j], cfg.num_classes)]]
        index64     == [b \in 1..Len(topk) |-> [j \in 1..Len(topk[b]) |->
                           ToInt64(indices_all[b][j])]]
        box_g       == Gather1(box_all, index64)
        cls_g       == Gather1(cls_all, index64)
    IN  IF IsErr(box_g) \/ IsErr(cls_g) THEN Err
        ELSE [status          |-> "ok",
              cls_outputs_all |-> cls_all,
              box_outputs_all |-> box_all,
              topk            |-> topk,
              \* gather(cls_outputs_all_after_topk, 2, classes_all.unsqueeze(2))
              cls_topk        |-> [b \in 1..Len(topk) |-> [j \in 1..Len(topk[b]) |->
                                     cls_g.rows[b][j][classes_all[b][j] + 1]]],
              box_topk        |-> box_g.rows,
              indices_all     |-> indices_all,
              classes_all     |-> classes_all]

\* the outcomes of _post_process(config, cls_outputs, box_outputs)
PostProcess(cfg, cls, box, mode) ==
    LET batch_size == cls[1].shape[1]
        cls_all    == FlattenAll(cls, cfg.num_levels, batch_size, cfg.num_classes)
        box_all    == FlattenAll(box, cfg.num_levels, batch_size, 4)
    IN  IF IsErr(cls_all) \/ IsErr(box_all) THEN {Err}
        ELSE IF MAX_DETECTION_POINTS > cls_all.shape[2] * cls_all.shape[3] THEN {Err}
        ELSE {SelectTopK(cfg, cls_all, box_all, topk, mode) :
                topk \in TopKAll(ScoreRows(cls_all), MAX_DETECTION_POINTS)}

(***************************************************************************)
(* The network outputs the model tries.  The network is outside this       *)
(* file; its outputs are inputs here.                                      *)
(***************************************************************************)
\* the (height, width) of one level
Geoms == {<<1, 1>>, <<1, 2>>, <<2, 1>>, <<2, 2>>}

\* one or two feature levels
GeomLists == UNION {[1..n -> Geoms] : n \in {1, 2}}

\* anchor variants per cell, num_classes
AnchorsPerCell == {1, 2}

ClassCounts == {1, 2}

Cells(geoms) == SumSeq([l \in 1..Len(geoms) |-> geoms[l][1] * geoms[l][2]])

\* score patterns: all equal, periodic with ties, increasing, scrambled
ScorePatterns ==
    {[mul |-> 0, off |-> 1, mod |-> 3], [mul |-> 1, off |-> 0, mod |-> 3],
     [mul |-> 2, off |-> 1, mod |-> 3], [mul |-> 1, off |-> 0, mod |-> 64],
     [mul |-> 5, off |-> 3, mod |-> 17]}

\* the pattern the mismatched outputs carry
MismatchPattern == [mul |-> 1, off |-> 0, mod |-> 64]

Layouts == {"channels_first", "channels_last"}

\* the shape of one level's output: batch images, ch channels, h x w cells
LevelShape(layout, batch, ch, g) ==
    IF layout = "channels_first" THEN <<batch, ch, g[1], g[2]>>
    ELSE <<batch, g[1], g[2], ch>>

\* classification scores of level l
ClsTensor(layout, batch, ch, g, l, pat) ==
    LET shape == LevelShape(layout, batch, ch, g)
    IN  [shape |-> shape,
         data  |-> [n \in 1..Prod(shape) |-> ((7 * l + n - 1) * pat.mul + pat.off) % pat.mod]]

\* box regressions of level l: every element is its own tag
BoxTensor(layout, batch, ch, g, l, pat) ==
    LET shape == LevelShape(layout, batch, ch, g)
    IN  [shape |-> shape,
         data  |-> [n \in 1..Prod(shape) |-> 1000 * l + 100 * pat.off + n - 1]]

\* how the two outputs may disagree with each other or with the config
Mismatches == {"none", "batch", "geom", "levels", "classes"}

OtherGeom(g) == IF g = <<1, 1>> THEN <<1, 2>> ELSE <<1, 1>>

\* the network outputs for (A anchors per cell, geoms, batch) under mismatch mm
NetCls(layout, batch, A, C, geoms, pat, mm) ==
    [l \in 1..Len(geoms) |->
        ClsTensor(layout, batch, A * (IF mm = "classes" THEN C + 1 ELSE C), geoms[l], l, pat)]

NetBox(layout, batch, A, geoms, pat, mm) ==
    [l \in 1..Len(geoms) |->
        BoxTensor(layout,
                  IF mm = "batch" THEN (batch % MaxBatch) + 1 ELSE batch,
                  A * 4,
                  IF mm = "geom" /\ l = 1 THEN OtherGeom(geoms[l]) ELSE geoms[l],
                  l, pat)]

NetLevels(geoms, mm) ==
    IF mm = "levels" THEN (IF Len(geoms) > 1 THEN Len(geoms) - 1 ELSE Len(geoms) + 1)
    ELSE Len(geoms)

DivModes == {"floor", "true"}

BenchVarsIdle ==
    /\ bench = "none"
    /\ anchors = [build |-> 0]
    /\ anchor_builds = 0
    /\ x_batch = 0
    /\ gt = <<>>
    /\ include_pred = FALSE
    /\ i = 0
    /\ cls_targets = <<>>
    /\ box_targets = <<>>
    /\ num_positives = <<>>
    /\ losses = <<>>
    /\ detections = <<>>
    /\ trace = <<>>
    /\ calls = 0

IdxVarsIdle ==
    /\ idx_f = 0
    /\ idx_out = [status |-> "none"]

\* a caller is about to call _post_process(config, cls_outputs, box_outputs)
InitPP ==
    /\ \E layout \in Layouts, batch \in 1..MaxBatch, A \in AnchorsPerCell,
          C \in ClassCounts, geoms \in GeomLists, pat \in ScorePatterns,
          mm \in Mismatches :
          /\ batch * A * C * Cells(geoms) <= MaxElems
          /\ mm # "none" => pat = MismatchPattern
          /\ config = [num_classes |-> C, num_levels |-> NetLevels(geoms, mm)]
          /\ cls_outputs = NetCls(layout, batch, A, C, geoms, pat, mm)
          /\ box_outputs = NetBox(layout, batch, A, geoms, pat, mm)
    /\ div_mode \in DivModes
    /\ pp = [status |-> "none"]
    /\ pc = "post_process"
    /\ BenchVarsIdle
    /\ IdxVarsIdle

\* the call of _post_process, to its return or to the error it raises
CallPostProcess ==
    /\ pc = "post_process"
    /\ bench = "none"
    /\ \E r \in PostProcess(config, cls_outputs, box_outputs, div_mode) :
          /\ pp' = r
          /\ pc' = IF IsErr(r) THEN "raised" ELSE "returned"
    /\ UNCHANGED <<config, div_mode, cls_outputs, box_outputs, bench, anchors,
                   anchor_builds, x_batch, gt, include_pred, i, cls_targets,
                   box_targets, num_positives, losses, detections, trace,
                   calls, idx_f, idx_out>>

NextPP == CallPostProcess

SpecPP == InitPP /\ [][NextPP]_vars

(***************************************************************************)
(* The index recovery of _post_process on its own: one flat index f that   *)
(* top-k returned, in a score vector of num_anchors * num_classes entries. *)
(***************************************************************************)
\* flat indices around 2^24, where int64 -> float32 starts to round
LargeFlat == {Pow2(24) + d : d \in 0..9} \cup {Pow2(24) - d : d \in 1..3}

FlatSamples == (0..MaxSmallFlat) \cup LargeFlat

\* num_classes tried by the index recovery (90: the COCO label count)
IdxClassCounts == {1, 2, 3, 4, 90}

InitIdx ==
    /\ idx_f \in FlatSamples
    /\ \E C \in IdxClassCounts : config = [num_classes |-> C, num_levels |-> 1]
    /\ div_mode \in DivModes
    /\ idx_out = [status |-> "none"]
    /\ pc = "recover"
    /\ cls_outputs = <<>>
    /\ box_outputs = <<>>
    /\ pp = [status |-> "none"]
    /\ BenchVarsIdle

\* indices_all, classes_all of one top-k index, and the anchor index the
\* gathers and generate_detections use (.to(torch.int64))
RecoverIndex ==
    /\ pc = "recover"
    /\ idx_out' = [status      |-> "ok",
                   indices_all |-> DivIndex(idx_f, config.num_classes, div_mode),
                   anchor      |-> ToInt64(DivIndex(idx_f, config.num_classes, div_mode)),
                   class       |-> ModIndex(idx_f, config.num_classes)]
    /\ pc' = "recovered"
    /\ UNCHANGED <<config, div_mode, cls_outputs, box_outputs, pp, bench,
                   anchors, anchor_builds, x_batch, gt, include_pred, i,
                   cls_targets, box_targets, num_positives, losses,
                   detections, trace, calls, idx_f>>

NextIdx == RecoverIndex

SpecIdx == InitIdx /\ [][NextIdx]_vars

(***************************************************************************)
(* The benches.  The anchor set, the labeler, the detection generator and  *)
(* the loss live in other files: here they are what they are called with.  *)
(***************************************************************************)
TrainBenches == {"DetBenchTrain", "DetBenchTrain0Box", "DetBenchTrainClsAndDet"}

EvalBenches == {"DetBenchEval", "DetClsBenchEval"}

BenchKinds == TrainBenches \cup EvalBenches

\* Anchors(config.min_level, ..., config.image_size): the anchor set of a
\* config, and which construction made it
BuildAnchors(cfg, build) == [config |-> cfg, build |-> build]

\* self.anchor_labeler.label_anchors(gt_boxes[i], gt_labels[i])
LabelAnchors(anc, g) ==
    [cls          |-> <<"cls_target", anc, g>>,
     box          |-> <<"box_target", anc, g>>,
     num_positive |-> <<"num_positive", anc, g>>]

\* generate_detections(cls_out, box_out, anchor_boxes, indices, classes, scale)
GenerateDetections(cls_out, box_out, anc, indices, classes, scale) ==
    [cls_out |-> cls_out, box_out |-> box_out, anchor_boxes |-> anc,
     indices |-> indices, classes |-> classes, image_scale |-> scale]

\* self.loss_fn(class_out, box_out, [classification_out,] cls_targets,
\*              box_targets, [gt_classifications,] num_positives[, has_box])
LossFn(kind, class_out, box_out, cls_t, box_t, num_pos) ==
    [class_out |-> class_out, box_out |-> box_out, cls_targets |-> cls_t,
     box_targets |-> box_t, num_positives |-> num_pos,
     has_box |-> kind \in {"DetBenchTrain0Box", "DetBenchTrainClsAndDet"},
     classification_out |-> kind = "DetBenchTrainClsAndDet"]

\* the configs the benches are constructed with
BenchConfigs == {[num_classes |-> 1, num_levels |-> 1], [num_classes |-> 2, num_levels |-> 2]}

\* the ground truth of one image: no box at all, or some
GtSamples == {"no_boxes", "one_box"}

BenchGeoms == {<<1, 1>>, <<1, 2>>}

BenchPatterns == {[mul |-> 1, off |-> 0, mod |-> 64], [mul |-> 1, off |-> 0, mod |-> 3]}

Event(op, image, anc, arg) == [op |-> op, image |-> image, anchors |-> anc, arg |-> arg]

\* a bench right after __init__
InitBench ==
    /\ bench \in BenchKinds
    /\ config \in BenchConfigs
    /\ div_mode \in DivModes
    /\ anchors = BuildAnchors(config, 1)
    /\ anchor_builds = 1
    /\ pc = "idle"
    /\ cls_outputs = <<>>
    /\ box_outputs = <<>>
    /\ pp = [status |-> "none"]
    /\ x_batch = 0
    /\ gt = <<>>
    /\ include_pred = FALSE
    /\ i = 0
    /\ cls_targets = <<>>
    /\ box_targets = <<>>
    /\ num_positives = <<>>
    /\ losses = <<>>
    /\ detections = <<>>
    /\ trace = <<>>
    /\ calls = 0
    /\ IdxVarsIdle

\* faulty variant of SelfKept: every forward call builds the anchor set anew
SelfRebuilt ==
    /\ anchors' = BuildAnchors(config, anchor_builds + 1)
    /\ anchor_builds' = anchor_builds + 1
    /\ UNCHANGED <<config, bench>>

\* what a forward call does to the bench itself: it assigns no attribute
SelfKept == UNCHANGED <<config, bench, anchors, anchor_builds>>

\* forward(x, ...) is entered and self.model(x) returns the raw outputs; the
\* locals of the call start empty
StartForward ==
    /\ pc \in {"idle", "returned", "raised"}
    /\ bench \in BenchKinds
    /\ calls < MaxCalls
    /\ \E batch \in 1..MaxBatch, geoms \in [1..config.num_levels -> BenchGeoms],
          pat \in BenchPatterns :
          /\ batch * config.num_classes * Cells(geoms) <= MaxElems
          /\ x_batch' = batch
          /\ cls_outputs' = NetCls("channels_first", batch, 1, config.num_classes, geoms, pat, "none")
          /\ box_outputs' = NetBox("channels_first", batch, 1, geoms, pat, "none")
          /\ gt' \in [1..batch -> GtSamples]
    /\ include_pred' \in (IF bench \in TrainBenches THEN BOOLEAN ELSE {FALSE})
    /\ pp' = [status |-> "none"]
    /\ i' = 0
    /\ cls_targets' = <<>>
    /\ box_targets' = <<>>
    /\ num_positives' = <<>>
    /\ losses' = <<>>
    /\ detections' = <<>>
    /\ trace' = <<Event("model", -1, "unused", "x")>>
    /\ calls' = calls + 1
    /\ pc' = "post_process"
    /\ SelfKept
    /\ UNCHANGED <<div_mode, idx_f, idx_out>>

\* ... = _post_process(self.config, class_out, box_out)
FwdPostProcess ==
    /\ pc = "post_process"
    /\ bench \in BenchKinds
    /\ \E r \in PostProcess(config, cls_outputs, box_outputs, div_mode) :
          /\ pp' = r
          /\ pc' = IF IsErr(r) THEN "raised"
                   ELSE IF bench \in TrainBenches THEN "label" ELSE "detect"
    /\ trace' = Append(trace, Event("topk", -1, "unused", <<cls_outputs, box_outputs>>))
    /\ i' = 0
    /\ UNCHANGED <<config, div_mode, cls_outputs, box_outputs, bench, anchors,
                   anchor_builds, x_batch, gt, include_pred, cls_targets,
                   box_targets, num_positives, losses, detections, calls,
                   idx_f, idx_out>>

\* faulty variant of LabelArgs: (gt_boxes[0], gt_labels[0]) in every round
LabelArgsFirst == gt[1]

\* the arguments of label_anchors in round i: (gt_boxes[i], gt_labels[i])
LabelArgs == gt[i + 1]

\* one round of the label loop of a training forward
LabelStep ==
    /\ pc = "label"
    /\ i < x_batch
    /\ LET r == LabelAnchors(anchors, LabelArgs)
       IN  /\ cls_targets' = Append(cls_targets, r.cls)
           /\ box_targets' = Append(box_targets, r.box)
           /\ num_positives' = Append(num_positives, r.num_positive)
    /\ trace' = Append(trace, Event("label", i, anchors, LabelArgs))
    /\ i' = i + 1
    /\ UNCHANGED <<config, div_mode, cls_outputs, box_outputs, pp, pc, bench,
                   anchors, anchor_builds, x_batch, gt, include_pred, losses,
                   detections, calls, idx_f, idx_out>>

\* faulty variant of AfterLoss: the detection loop whatever include_pred is
AfterLossAlwaysDetect == "detect"

\* after the loss: `if include_pred:` the detection loop, else `return losses`
AfterLoss == IF include_pred THEN "detect" ELSE "returned"

\* losses = self.loss_fn(class_out, box_out, ...), and `return losses`
\* unless include_pred
LossStep ==
    /\ pc = "label"
    /\ i = x_batch
    /\ losses' = <<LossFn(bench, cls_outputs, box_outputs, cls_targets, box_targets,
                          num_positives)>>
    /\ trace' = Append(trace, Event("loss", -1, "unused", <<cls_outputs, box_outputs>>))
    /\ pc' = AfterLoss
    /\ i' = 0
    /\ UNCHANGED <<config, div_mode, cls_outputs, box_outputs, pp, bench,
                   anchors, anchor_builds, x_batch, gt, include_pred,
                   cls_targets, box_targets, num_positives, detections, calls,
                   idx_f, idx_out>>

\* one round of the detection loop
DetectStep ==
    /\ pc = "detect"
    /\ i < x_batch
    /\ LET d == GenerateDetections(
                    pp.cls_topk[i + 1], pp.box_topk[i + 1], anchors,
                    [j \in 1..Len(pp.indices_all[i + 1]) |-> ToInt64(pp.indices_all[i + 1][j])],
                    pp.classes_all[i + 1],
                    IF bench \in EvalBenches THEN <<"image_scales", i>> ELSE 1)
       IN  /\ detections' = Append(detections, d)
           /\ trace' = Append(trace, Event("detect", i, anchors, d))
    /\ i' = i + 1
    /\ UNCHANGED <<config, div_mode, cls_outputs, box_outputs, pp, pc, bench,
                   anchors, anchor_builds, x_batch, gt, include_pred,
                   cls_targets, box_targets, num_positives, losses, calls,
                   idx_f, idx_out>>

\* return torch.stack(batch_detections, dim=0) ...
ReturnDetections ==
    /\ pc = "detect"
    /\ i = x_batch
    /\ pc' = "returned"
    /\ UNCHANGED <<config, div_mode, cls_outputs, box_outputs, pp, bench,
                   anchors, anchor_builds, x_batch, gt, include_pred, i,
                   cls_targets, box_targets, num_positives, losses,
                   detections, trace, calls, idx_f, idx_out>>

NextBench ==
    \/ StartForward
    \/ FwdPostProcess
    \/ LabelStep
    \/ LossStep
    \/ DetectStep
    \/ ReturnDetections

SpecBench == InitBench /\ [][NextBench]_vars

(***************************************************************************)
(* The anchor ordering the claims speak of: levels in increasing order,    *)
(* a level row-major over its cells, a cell by anchor variant.  A level's  *)
(* tensor is read either channels first, [batch, channels, height, width], *)
(* or channels last, [batch, height, width, channels].                     *)
(***************************************************************************)
LvH(layout, t) == IF layout = "channels_first" THEN t.shape[3] ELSE t.shape[2]

LvW(layout, t) == IF layout = "channels_first" THEN t.shape[4] ELSE t.shape[3]

LvCh(layout, t) == IF layout = "channels_first" THEN t.shape[2] ELSE t.shape[4]

Elem(layout, t, b, r, c, ch) ==
    IF layout = "channels_first" THEN At4(t, b, ch, r, c) ELSE At4(t, b, r, c, ch)

\* the two outputs fit each other and the config when read in this layout
Consistent(layout) ==
    /\ Len(cls_outputs) = config.num_levels
    /\ Len(box_outputs) = config.num_levels
    /\ \A l \in 1..config.num_levels :
          /\ cls_outputs[l].shape[1] = cls_outputs[1].shape[1]
          /\ box_outputs[l].shape[1] = cls_outputs[1].shape[1]
          /\ LvCh(layout, cls_outputs[l]) % config.num_classes = 0
          /\ LvCh(layout, box_outputs[l]) = 4 * (LvCh(layout, cls_outputs[l]) \div config.num_classes)
          /\ LvH(layout, box_outputs[l]) = LvH(layout, cls_outputs[l])
          /\ LvW(layout, box_outputs[l]) = LvW(layout, cls_outputs[l])

LvA(layout, l) == LvCh(layout, cls_outputs[l]) \div config.num_classes

LevelAnchors(layout, l) ==
    LvH(layout, cls_outputs[l]) * LvW(layout, cls_outputs[l]) * LvA(layout, l)

LevelOffset(layout, l) == SumSeq([j \in 1..(l - 1) |-> LevelAnchors(layout, j)])

NumAnchors(layout) == LevelOffset(layout, config.num_levels + 1)

\* the flat index of (level l, row r, column c, variant v)
FlatAnchorIndex(layout, l, r, c, v) ==
    LevelOffset(layout, l) + (r * LvW(layout, cls_outputs[l]) + c) * LvA(layout, l) + v

\* every (level, row, column, variant)
AnchorKeys(layout) ==
    UNION {{<<l, r, c, v>> : r \in 0..(LvH(layout, cls_outputs[l]) - 1),
                             c \in 0..(LvW(layout, cls_outputs[l]) - 1),
                             v \in 0..(LvA(layout, l) - 1)} :
           l \in 1..config.num_levels}

AnchorAt(layout, n) ==
    CHOOSE q \in AnchorKeys(layout) : FlatAnchorIndex(layout, q[1], q[2], q[3], q[4]) = n

Images == 0..(cls_outputs[1].shape[1] - 1)

\* the flattened tensors hold, at the flat index of every anchor, that
\* anchor's scores and box regressions as the layout reads them
FlattenedAs(layout) ==
    \A q \in AnchorKeys(layout) : \A b \in Images :
        LET n == FlatAnchorIndex(layout, q[1], q[2], q[3], q[4])
        IN  /\ \A k \in 0..(config.num_classes - 1) :
                  At3(pp.cls_outputs_all, b, n, k)
                    = Elem(layout, cls_outputs[q[1]], b, q[2], q[3], q[4] * config.num_classes + k)
            /\ \A m \in 0..3 :
                  At3(pp.box_outputs_all, b, n, m)
                    = Elem(layout, box_outputs[q[1]], b, q[2], q[3], q[4] * 4 + m)

\* the (anchor, class) pairs _post_process returned for image b, the anchor
\* as its callers index with it (indices[i].to(torch.int64))
Selected(b) ==
    {<<ToInt64(pp.indices_all[b + 1][j]), pp.classes_all[b + 1][j]>> :
        j \in 1..Len(pp.indices_all[b + 1])}

AllPairs == (0..(pp.cls_outputs_all.shape[2] - 1)) \X (0..(config.num_classes - 1))

ScoreOf(b, pair) == At3(pp.cls_outputs_all, b, pair[1], pair[2])

(***************************************************************************)
(* C1: for every image, the candidates _post_process returns are K         *)
(* different (anchor, class) pairs, and no pair left out scores higher     *)
(* than a pair that was selected.                                          *)
(***************************************************************************)
C1_TopKGloballyHighest ==
    pc = "returned" =>
        \A b \in Images :
            /\ Len(pp.indices_all[b + 1]) = MAX_DETECTION_POINTS
            /\ Cardinality(Selected(b)) = MAX_DETECTION_POINTS
            /\ Selected(b) \subseteq AllPairs
            /\ \A out \in AllPairs \ Selected(b) : \A in \in Selected(b) :
                  ScoreOf(b, out) <= ScoreOf(b, in)

\* a call returned that had to leave out pairs, one of them scoring lower
\* and one scoring the same as a selected pair
C1_Witness ==
    /\ pc = "returned"
    /\ \E b \in Images :
          /\ \E out \in AllPairs \ Selected(b) : \E in \in Selected(b) :
                ScoreOf(b, out) < ScoreOf(b, in)
          /\ \E out \in AllPairs \ Selected(b) : \E in \in Selected(b) :
                ScoreOf(b, out) = ScoreOf(b, in)

C4_ExactlyKForEverySize ==
    (pc # "post_process" /\ Consistent("channels_first")) =>
        /\ pc = "returned"
        /\ \A b \in Images : Len(pp.cls_topk[b + 1]) = MAX_DETECTION_POINTS

(***************************************************************************)
(* C5: of entries with equal scores that do not all fit in the top K, the  *)
(* one with the lower flat index (lower anchor, then lower class) is       *)
(* selected.                                                               *)
(***************************************************************************)
C5_TiesByIndexOrder ==
    pc = "returned" =>
        \A b \in Images : \A out \in AllPairs \ Selected(b) : \A in \in Selected(b) :
            ScoreOf(b, out) = ScoreOf(b, in) =>
                in[1] * config.num_classes + in[2] < out[1] * config.num_classes + out[2]

(***************************************************************************)
(* C6: when the classification and box outputs disagree in batch size, or  *)
(* a level's shape does not fit the configured layout (num_classes, 4 box  *)
(* coordinates, num_levels), the call raises and returns nothing.          *)
(***************************************************************************)
C6_ShapeMismatchRaises ==
    (/\ pc # "post_process"
     /\ ~Consistent("channels_first")
     /\ ~Consistent("channels_last")) => pc = "raised"

C2_IndexRoundTrip ==
    pc = "recovered" =>
        /\ idx_out.anchor * config.num_classes + idx_out.class = idx_f
        /\ idx_out.anchor \in 0..(idx_f \div config.num_classes)
        /\ idx_out.class \in 0..(config.num_classes - 1)

(***************************************************************************)
(* The calls a forward made, read off its trace.                           *)
(***************************************************************************)
Where(op) == {n \in 1..Len(trace) : trace[n].op = op}

ImagesOf(op, before) == {trace[n].image : n \in {m \in Where(op) : m < before}}

OncePerImage(op) ==
    /\ Cardinality(Where(op)) = x_batch
    /\ ImagesOf(op, Len(trace) + 1) = 0..(x_batch - 1)

RawOutputs == <<cls_outputs, box_outputs>>

NeedsDetections == bench \in EvalBenches \/ include_pred

(***************************************************************************)
(* C7: in a forward call the top-k selection is the first thing that       *)
(* follows the network, runs once and on the raw outputs; labeling and     *)
(* loss happen in training benches only, the loss once, on the raw outputs *)
(* and after every image is labeled; detections are generated only in an   *)
(* evaluation bench or with include_pred, after the top-k selection and,   *)
(* in training, after the loss; and a call that returns has run the top-k  *)
(* selection once, in training the loss once, and the detection generator  *)
(* once per image if detections are wanted and not at all if not.          *)
(***************************************************************************)
C7_ForwardOrder ==
    bench \in BenchKinds =>
        /\ \A n \in 1..Len(trace) :
              /\ n = 1 <=> trace[n].op = "model"
              /\ n = 2 <=> trace[n].op = "topk"
              /\ trace[n].op = "topk" => trace[n].arg = RawOutputs
              /\ trace[n].op \in {"label", "loss"} => bench \in TrainBenches
              /\ trace[n].op = "loss" =>
                    /\ Where("loss") = {n}
                    /\ trace[n].arg = RawOutputs
                    /\ losses[1].class_out = cls_outputs
                    /\ losses[1].box_out = box_outputs
                    /\ ImagesOf("label", n) = 0..(x_batch - 1)
              /\ trace[n].op = "detect" =>
                    /\ NeedsDetections
                    /\ n > 2
                    /\ bench \in TrainBenches => \E m \in Where("loss") : m < n
                    /\ trace[n].image \notin ImagesOf("detect", n)
                    /\ trace[n].arg.cls_out = pp.cls_topk[trace[n].image + 1]
                    /\ trace[n].arg.box_out = pp.box_topk[trace[n].image + 1]
        /\ pc = "returned" =>
              /\ Cardinality(Where("topk")) = 1
              /\ Cardinality(Where("loss")) = IF bench \in TrainBenches THEN 1 ELSE 0
              /\ IF NeedsDetections THEN OncePerImage("detect") ELSE Where("detect") = {}

\* a training forward with include_pred over two images has returned
C7_Witness ==
    /\ bench \in TrainBenches
    /\ include_pred
    /\ pc = "returned"
    /\ x_batch = 2
    /\ Cardinality(Where("detect")) = 2
    /\ Cardinality(Where("loss")) = 1

(***************************************************************************)
(* C8: a training forward over B images calls label_anchors once for each  *)
(* image i = 0..B-1, in that order, with (gt_boxes[i], gt_labels[i]); B     *)
(* times in all when it returns; and the loss is called with cls_targets,  *)
(* box_targets and num_positives of length B whose position i is the       *)
(* labeling of image i, an image without boxes included.                   *)
(***************************************************************************)
C8_LabelEveryImage ==
    bench \in TrainBenches =>
        LET IsLabel(e) == e.op = "label"
            labels == SelectSeq(trace, IsLabel)
        IN  /\ Len(labels) <= x_batch
            /\ \A n \in 1..Len(labels) :
                  /\ labels[n].image = n - 1
                  /\ labels[n].arg = gt[n]
            /\ pc = "returned" => Len(labels) = x_batch
            /\ losses # <<>> =>
                  /\ Len(losses[1].cls_targets) = x_batch
                  /\ Len(losses[1].box_targets) = x_batch
                  /\ Len(losses[1].num_positives) = x_batch
                  /\ \A n \in 1..x_batch :
                        /\ losses[1].cls_targets[n] = LabelAnchors(anchors, gt[n]).cls
                        /\ losses[1].box_targets[n] = LabelAnchors(anchors, gt[n]).box
                        /\ losses[1].num_positives[n] = LabelAnchors(anchors, gt[n]).num_positive

\* the loss was called for a batch whose second image has no box and whose
\* first has one
C8_Witness ==
    /\ bench \in TrainBenches
    /\ pc = "returned"
    /\ losses # <<>>
    /\ x_batch = 2
    /\ gt = <<"one_box", "no_boxes">>

(***************************************************************************)
(* C9: the anchor set is built once, by the constructor; no forward call   *)
(* builds, replaces or changes it, and every label_anchors and             *)
(* generate_detections call reads the set the constructor built.           *)
(***************************************************************************)
C9_AnchorsBuiltOnce ==
    bench \in BenchKinds =>
        /\ anchor_builds = 1
        /\ anchors = BuildAnchors(config, 1)
        /\ \A n \in 1..Len(trace) :
              trace[n].op \in {"label", "detect"} => trace[n].anchors = BuildAnchors(config, 1)

\* a second forward call has labeled and generated detections
C9_Witness ==
    /\ calls = 2
    /\ pc = "returned"
    /\ Where("label") # {}
    /\ Where("detect") # {}

====
